---------------------------- MODULE Spec2Model ----------------------------
(***************************************************************************)
(* Model of the two list comparators compare_two_lists.py and              *)
(* venn_plot_two_lists.py: parse_list, build_norm_map, recover_items and   *)
(* the module-level script that computes the three result regions and the  *)
(* similarity scores.                                                      *)
(*                                                                         *)
(* A Python str is a sequence of one-character strings.  A Python list is  *)
(* a sequence, a Python set a set, a dict a function.                      *)
(***************************************************************************)
EXTENDS Integers, Sequences, FiniteSets, TLC

(***************************************************************************)
(* Bounds of the checked input families.  Spec draws both texts from the   *)
(* list-level family (tokens, one per line), SpecParse draws list A's text *)
(* from the character-level family (every string over Chars).              *)
(***************************************************************************)
\* most items per text in the list-level input family
MaxItems == 2
\* most characters per text in the character-level input family
MaxTextLen == 3

(***************************************************************************)
(* Characters.                                                             *)
(***************************************************************************)
\* the characters str.splitlines() breaks on (of the modelled alphabet)
LineBreaks == {"\n", "\r"}

\* the characters str.strip() and str.split() treat as whitespace
Whitespace == {" ", "\n", "\r"}

\* code point of a character: list.sort() orders str by code points
Ord(c) ==
    CASE c = "\n" -> 10
      [] c = "\r" -> 13
      [] c = " "  -> 32
      [] c = ","  -> 44
      [] c = ";"  -> 59
      [] c = "A"  -> 65
      [] c = "B"  -> 66
      [] c = "X"  -> 88
      [] c = "a"  -> 97
      [] c = "b"  -> 98
      [] c = "x"  -> 120

\* str.casefold() of one character
FoldChar(c) ==
    CASE c = "A" -> "a"
      [] c = "B" -> "b"
      [] c = "X" -> "x"
      [] OTHER   -> c

(***************************************************************************)
(* str methods.                                                            *)
(***************************************************************************)
\* x.casefold()
CaseFold(s) == [i \in 1..Len(s) |-> FoldChar(s[i])]

\* s without its first n characters
Drop(s, n) == SubSeq(s, n + 1, Len(s))

\* does sep occur in s at position i
OccursAt(s, sep, i) ==
    /\ i + Len(sep) - 1 <= Len(s)
    /\ SubSeq(s, i, i + Len(sep) - 1) = sep

\* position of the first occurrence of sep in s, 0 when there is none
Find(s, sep) ==
    LET hits == {i \in 1..Len(s) : OccursAt(s, sep, i)}
    IN  IF hits = {} THEN 0 ELSE CHOOSE i \in hits : \A j \in hits : i <= j

\* text.split(sep) for a non-empty sep: never an empty list
RECURSIVE Split(_, _)
Split(s, sep) ==
    LET i == Find(s, sep)
    IN  IF i = 0 THEN <<s>>
        ELSE <<SubSeq(s, 1, i - 1)>> \o Split(Drop(s, i + Len(sep) - 1), sep)

\* position of the first line break of s, 0 when there is none
FirstBreak(s) ==
    LET hits == {i \in 1..Len(s) : s[i] \in LineBreaks}
    IN  IF hits = {} THEN 0 ELSE CHOOSE i \in hits : \A j \in hits : i <= j

\* text.splitlines(): "\r\n" is one break, no trailing empty piece, "" -> []
RECURSIVE SplitLines(_)
SplitLines(s) ==
    IF s = <<>> THEN <<>>
    ELSE LET i == FirstBreak(s)
             w == IF i > 0 /\ i < Len(s) /\ s[i] = "\r" /\ s[i + 1] = "\n"
                  THEN 2 ELSE 1
         IN  IF i = 0 THEN <<s>>
             ELSE <<SubSeq(s, 1, i - 1)>> \o SplitLines(Drop(s, i + w - 1))

\* s.lstrip()
RECURSIVE LStrip(_)
LStrip(s) ==
    IF s # <<>> /\ s[1] \in Whitespace THEN LStrip(Tail(s)) ELSE s

\* s.rstrip()
RECURSIVE RStrip(_)
RStrip(s) ==
    IF s # <<>> /\ s[Len(s)] \in Whitespace
    THEN RStrip(SubSeq(s, 1, Len(s) - 1)) ELSE s

\* p.strip()
Strip(s) == RStrip(LStrip(s))

\* length of the longest prefix of s without whitespace
RECURSIVE WordLen(_)
WordLen(s) ==
    IF s = <<>> \/ s[1] \in Whitespace THEN 0 ELSE 1 + WordLen(Tail(s))

\* text.split(): split on runs of whitespace, no empty pieces
RECURSIVE SplitWhitespace(_)
SplitWhitespace(s) ==
    LET t == LStrip(s)
        n == WordLen(t)
    IN  IF t = <<>> THEN <<>>
        ELSE <<SubSeq(t, 1, n)>> \o SplitWhitespace(Drop(t, n))

\* a < b in Python's str ordering (lexicographic by code point)
RECURSIVE StrLess(_, _)
StrLess(a, b) ==
    IF b = <<>> THEN FALSE
    ELSE IF a = <<>> THEN TRUE
    ELSE IF a[1] # b[1] THEN Ord(a[1]) < Ord(b[1])
    ELSE StrLess(Tail(a), Tail(b))

\* set(lst)
ToSet(lst) == {lst[i] : i \in 1..Len(lst)}


(***************************************************************************)
(* parse_list (identical in both files).                                   *)
(***************************************************************************)
\* SplitParts whose "auto" never re-splits on ","
SplitPartsNoResplit(text, dm, cd) ==
    CASE dm = "newline"    -> SplitLines(text)
      [] dm = "comma"      -> Split(text, <<",">>)
      [] dm = "semicolon"  -> Split(text, <<";">>)
      [] dm = "whitespace" -> SplitWhitespace(text)
      [] dm = "custom"     -> IF cd # <<>> THEN Split(text, cd) ELSE <<text>>
      [] OTHER             -> SplitLines(text)

\* the splitting strategy: parts = ...
SplitParts(text, dm, cd) ==
    CASE dm = "newline"    -> SplitLines(text)
      [] dm = "comma"      -> Split(text, <<",">>)
      [] dm = "semicolon"  -> Split(text, <<";">>)
      [] dm = "whitespace" -> SplitWhitespace(text)
      [] dm = "custom"     -> IF cd # <<>> THEN Split(text, cd) ELSE <<text>>
      [] OTHER             -> LET parts == SplitLines(text)
                              IN  IF Len(parts) <= 1 THEN Split(text, <<",">>)
                                  ELSE parts

\* Clean without its "if item" filter
CleanKeepEmpty(parts, si) ==
    [i \in 1..Len(parts) |-> IF si THEN Strip(parts[i]) ELSE parts[i]]

\* the cleaning loop: strip each piece when asked, keep the non-empty ones
RECURSIVE Clean(_, _)
Clean(parts, si) ==
    IF parts = <<>> THEN <<>>
    ELSE LET item == IF si THEN Strip(Head(parts)) ELSE Head(parts)
         IN  (IF item # <<>> THEN <<item>> ELSE <<>>) \o Clean(Tail(parts), si)

\* lst if case_sensitive else [x.casefold() for x in lst]
normalize_list(lst, cs) ==
    IF cs THEN lst ELSE [i \in 1..Len(lst) |-> CaseFold(lst[i])]

\* parse_list(text, delim_mode, custom_delim, case_sensitive, strip_items):
\* the pair (cleaned, set(norm))
parse_list(text, dm, cd, cs, si) ==
    LET cleaned == Clean(SplitParts(text, dm, cd), si)
    IN  <<cleaned, ToSet(normalize_list(cleaned, cs))>>

(***************************************************************************)
(* compare_two_lists.py: build_norm_map.                                   *)
(***************************************************************************)
\* SetDefault as the plain assignment mapping[norm] = raw (last seen wins)
SetLast(mapping, norm, raw) ==
    (norm :> raw) @@ mapping

\* mapping.setdefault(norm, raw)
SetDefault(mapping, norm, raw) ==
    IF norm \in DOMAIN mapping THEN mapping ELSE (norm :> raw) @@ mapping

\* the loop of build_norm_map over zip(original_list, norm_list) from index i
RECURSIVE NormMapFrom(_, _, _, _)
NormMapFrom(original_list, norm_list, i, mapping) ==
    IF i > Len(original_list) THEN mapping
    ELSE NormMapFrom(original_list, norm_list, i + 1,
                     SetDefault(mapping, norm_list[i], original_list[i]))

\* build_norm_map(original_list, case_sensitive): the dict as a function
build_norm_map(original_list, cs) ==
    NormMapFrom(original_list, normalize_list(original_list, cs), 1, <<>>)

(***************************************************************************)
(* venn_plot_two_lists.py: recover_items.                                  *)
(***************************************************************************)
\* the loop of recover_items from index i, with result and seen so far
RECURSIVE RecoverFrom(_, _, _, _, _, _)
RecoverFrom(original_list, norm_list, normalized_set, i, result, seen) ==
    IF i > Len(original_list) THEN result
    ELSE IF norm_list[i] \in normalized_set /\ norm_list[i] \notin seen
         THEN RecoverFrom(original_list, norm_list, normalized_set, i + 1,
                          Append(result, original_list[i]),
                          seen \cup {norm_list[i]})
         ELSE RecoverFrom(original_list, norm_list, normalized_set, i + 1,
                          result, seen)

\* recover_items without its "norm not in seen" test
recover_items_unseen(original_list, normalized_set, cs) ==
    SelectSeq(original_list,
              LAMBDA raw : (IF cs THEN raw ELSE CaseFold(raw))
                           \in normalized_set)

\* recover_items(original_list, normalized_set, case_sensitive)
recover_items(original_list, normalized_set, cs) ==
    RecoverFrom(original_list, normalize_list(original_list, cs),
                normalized_set, 1, <<>>, {})

(***************************************************************************)
(* The scripts' list and set operations.                                   *)
(***************************************************************************)
\* setA_norm & setB_norm
InterNorm(setA, setB) == setA \cap setB

\* the difference forgotten: all of setA_norm
AOnlyNormAll(setA, setB) == setA

\* setA_norm - setB_norm
AOnlyNorm(setA, setB) == setA \ setB

\* setB_norm - setA_norm
BOnlyNorm(setA, setB) == setB \ setA

\* the orders in which iterating a set of str can yield its elements: the
\* order follows the strings' hashes, which CPython salts per process
IterOrders(S) ==
    {f \in [1..Cardinality(S) -> S] : ToSet(f) = S}

\* [norm_map[n] for n in order]
Lookup(norm_map, order) == [i \in 1..Len(order) |-> norm_map[order[i]]]

\* list(dict.fromkeys(lst)): the first occurrence of each entry, in order
RECURSIVE DictFromKeys(_)
DictFromKeys(lst) ==
    IF lst = <<>> THEN <<>>
    ELSE LET init == DictFromKeys(SubSeq(lst, 1, Len(lst) - 1))
             last == lst[Len(lst)]
         IN  IF last \in ToSet(init) THEN init ELSE Append(init, last)

\* lst.sort()
SortList(lst) == SortSeq(lst, StrLess)

\* the display-list policy of compare_two_lists.py
Display(lst, dd, sr) ==
    IF sr THEN SortList(IF dd THEN DictFromKeys(lst) ELSE lst)
    ELSE IF dd THEN DictFromKeys(lst) ELSE lst

\* a float quotient n / d kept as the pair <<n, d>>; with d = 0 Python
\* raises ZeroDivisionError
Quot(n, d) == <<n, d>>

\* did computing the quotient q raise
Raised(q) == q[2] = 0

\* the value 0.0
Zero == <<0, 1>>

\* x == y on quotients
QuotEq(x, y) == x[1] * y[2] = y[1] * x[2]

\* min(a, b)
Min(a, b) == IF a <= b THEN a ELSE b

\* Jaccard with two empty sets counted as identical (1.0)
JaccardEmptyOne(inter_norm, union_norm) ==
    IF union_norm # {}
    THEN Quot(Cardinality(inter_norm), Cardinality(union_norm))
    ELSE Quot(1, 1)

\* jaccard of compare_two_lists.py
Jaccard(inter_norm, union_norm) ==
    IF union_norm # {}
    THEN Quot(Cardinality(inter_norm), Cardinality(union_norm))
    ELSE Zero

\* OverlapCoeff without its zero-default branch
OverlapCoeffUnguarded(inter_norm, setA, setB) ==
    Quot(Cardinality(inter_norm), Min(Cardinality(setA), Cardinality(setB)))

\* OverlapCoeff dividing by the size of list A's set
OverlapCoeffBySetA(inter_norm, setA, setB) ==
    IF Min(Cardinality(setA), Cardinality(setB)) > 0
    THEN Quot(Cardinality(inter_norm), Cardinality(setA))
    ELSE Zero

\* overlap_coeff of compare_two_lists.py
OverlapCoeff(inter_norm, setA, setB) ==
    IF Min(Cardinality(setA), Cardinality(setB)) > 0
    THEN Quot(Cardinality(inter_norm),
              Min(Cardinality(setA), Cardinality(setB)))
    ELSE Zero

\* VennJaccard dividing by the size of list A's set
VennJaccardBySetA(inter_norm, setA, setB) ==
    IF Cardinality(setA \cup setB) > 0 /\ setA # {}
    THEN Quot(Cardinality(inter_norm), Cardinality(setA))
    ELSE Zero

\* jaccard of venn_plot_two_lists.py
VennJaccard(inter_norm, setA, setB) ==
    IF Cardinality(setA \cup setB) > 0
    THEN Quot(Cardinality(inter_norm), Cardinality(setA \cup setB))
    ELSE Zero


(***************************************************************************)
(* State.  text_a and text_b are st.session_state.text_a / text_b of       *)
(* compare_two_lists.py, venn_text_a and venn_text_b the two key-less text *)
(* areas of venn_plot_two_lists.py.  The sidebar settings are given to     *)
(* both apps alike and no operation of either changes them.  compare_out   *)
(* and venn_out are what each script computed on its last run.  rerun is   *)
(* the position of compare_two_lists.py: TRUE when an on_click callback    *)
(* has returned and the script's re-run is due, so that compare_out is     *)
(* still the output on the texts before the click.                         *)
(***************************************************************************)
VARIABLES text_a, text_b, venn_text_a, venn_text_b, delim_mode, custom_delim,
          case_sensitive, strip_items, deduplicate, sort_results,
          compare_out, venn_out, rerun

\* the sidebar settings
settings == <<delim_mode, custom_delim, case_sensitive, strip_items,
              deduplicate, sort_results>>

\* what a run of compare_two_lists.py reads
inputs == <<text_a, text_b, settings>>

\* what a run of venn_plot_two_lists.py reads
venn_inputs == <<venn_text_a, venn_text_b, settings>>

vars == <<text_a, text_b, venn_text_a, venn_text_b, delim_mode, custom_delim,
          case_sensitive, strip_items, deduplicate, sort_results,
          compare_out, venn_out, rerun>>

\* the options of the "Delimiter" selectbox
DelimModes ==
    {"auto", "newline", "comma", "semicolon", "whitespace", "custom"}

\* the custom delimiters tried
CustomDelims == {<<>>, <<",">>, <<"x">>}

\* the items texts of the list-level family are made of
Tokens == {<<"a">>, <<"A">>, <<"b">>, <<"x">>}

\* "\n".join(items)
RECURSIVE JoinLines(_)
JoinLines(items) ==
    IF items = <<>> THEN <<>>
    ELSE IF Len(items) = 1 THEN items[1]
    ELSE items[1] \o <<"\n">> \o JoinLines(Tail(items))

\* list-level family: up to MaxItems tokens, one per line
ListTexts ==
    {JoinLines(l) : l \in UNION {[1..k -> Tokens] : k \in 0..MaxItems}}

\* the texts tried under every setting: empty, or one token
ShortTexts == {<<>>} \cup Tokens

\* the characters texts of the character-level family are made of
Chars == {"A", "x", ",", ";", "\n", " "}

\* character-level family: every text of up to MaxTextLen characters
CharTexts == UNION {[1..k -> Chars] : k \in 0..MaxTextLen}

\* a script's outputs before its first run
NotRun ==
    [ran |-> FALSE, error |-> "none",
     listA_raw |-> <<>>, listB_raw |-> <<>>, setA_norm |-> {}, setB_norm |-> {},
     inter_norm |-> {}, A_only_norm |-> {}, B_only_norm |-> {},
     A_only |-> <<>>, B_only |-> <<>>, intersect |-> <<>>,
     metrics |-> <<0, 0, 0>>, jaccard |-> Zero, overlap_coeff |-> Zero]

\* custom_delim = st.text_input(...) if delim_mode == "custom" else ""
ConfigOK ==
    /\ delim_mode \in DelimModes
    /\ custom_delim \in CustomDelims
    /\ delim_mode # "custom" => custom_delim = <<>>
    /\ case_sensitive \in BOOLEAN
    /\ strip_items \in BOOLEAN

\* every pair of list-level texts, parsed with the sidebar's defaults
\* (delimiter "auto", trimming on), under every comparison and display
\* setting
InitLists ==
    /\ text_a \in ListTexts
    /\ text_b \in ListTexts
    /\ delim_mode = "auto"
    /\ custom_delim = <<>>
    /\ strip_items = TRUE
    /\ case_sensitive \in BOOLEAN
    /\ deduplicate \in BOOLEAN
    /\ sort_results \in BOOLEAN

\* every pair of short texts under every setting
InitSettings ==
    /\ text_a \in ShortTexts
    /\ text_b \in ShortTexts
    /\ ConfigOK
    /\ deduplicate \in BOOLEAN
    /\ sort_results \in BOOLEAN

\* neither script has run; both apps hold the same two texts
Fresh ==
    /\ venn_text_a = text_a
    /\ venn_text_b = text_b
    /\ compare_out = NotRun
    /\ venn_out = NotRun
    /\ rerun = FALSE

Init ==
    /\ InitLists \/ InitSettings
    /\ Fresh

\* every character-level text in list A, list B left empty (its initial
\* session value), the display checkboxes at their defaults
InitParse ==
    /\ text_a \in CharTexts
    /\ text_b = <<>>
    /\ ConfigOK
    /\ deduplicate = TRUE
    /\ sort_results = FALSE
    /\ Fresh

\* the two parse_list calls of either script, on the texts ta and tb
ParseTexts(ta, tb) ==
    [listA_raw |-> parse_list(ta, delim_mode, custom_delim,
                              case_sensitive, strip_items)[1],
     setA_norm |-> parse_list(ta, delim_mode, custom_delim,
                              case_sensitive, strip_items)[2],
     listB_raw |-> parse_list(tb, delim_mode, custom_delim,
                              case_sensitive, strip_items)[1],
     setB_norm |-> parse_list(tb, delim_mode, custom_delim,
                              case_sensitive, strip_items)[2]]

\* the parse of compare_two_lists.py's current inputs
Parse == ParseTexts(text_a, text_b)

\* the parse of venn_plot_two_lists.py's current inputs
VennParse == ParseTexts(venn_text_a, venn_text_b)

\* "Set Operations" on the parsed lists p
SetOps(p) ==
    [listA_raw |-> p.listA_raw, setA_norm |-> p.setA_norm,
     listB_raw |-> p.listB_raw, setB_norm |-> p.setB_norm,
     inter_norm |-> InterNorm(p.setA_norm, p.setB_norm),
     A_only_norm |-> AOnlyNorm(p.setA_norm, p.setB_norm),
     B_only_norm |-> BOnlyNorm(p.setA_norm, p.setB_norm)]

\* what a script shows when it ran to its end
Shown(s, A_only, B_only, intersect, metrics, jaccard, overlap_coeff) ==
    [ran |-> TRUE, error |-> "none",
     listA_raw |-> s.listA_raw, listB_raw |-> s.listB_raw,
     setA_norm |-> s.setA_norm, setB_norm |-> s.setB_norm,
     inter_norm |-> s.inter_norm, A_only_norm |-> s.A_only_norm,
     B_only_norm |-> s.B_only_norm,
     A_only |-> A_only, B_only |-> B_only, intersect |-> intersect,
     metrics |-> metrics, jaccard |-> jaccard,
     overlap_coeff |-> overlap_coeff]

\* what a script leaves when the exception err ended it
Aborted(err) == [NotRun EXCEPT !.ran = TRUE, !.error = err]

(***************************************************************************)
(* One run of compare_two_lists.py's script on the current inputs.  oa, ob *)
(* and oi are the orders in which this process iterates A_only_norm,       *)
(* B_only_norm and inter_norm.                                             *)
(***************************************************************************)
\* the script from the set operations s on, with the two norm maps
CompareFrom(s, norm_map_A, norm_map_B, oa, ob, oi) ==
    IF \/ ~(ToSet(oa) \cup ToSet(oi) \subseteq DOMAIN norm_map_A)
       \/ ~(ToSet(ob) \subseteq DOMAIN norm_map_B)
    THEN Aborted("KeyError")
    ELSE IF \/ Raised(Jaccard(s.inter_norm, s.setA_norm \cup s.setB_norm))
            \/ Raised(OverlapCoeff(s.inter_norm, s.setA_norm, s.setB_norm))
    THEN Aborted("ZeroDivisionError")
    ELSE Shown(s,
               Display(Lookup(norm_map_A, oa), deduplicate, sort_results),
               Display(Lookup(norm_map_B, ob), deduplicate, sort_results),
               Display(Lookup(norm_map_A, oi), deduplicate, sort_results),
               <<Cardinality(s.A_only_norm), Cardinality(s.inter_norm),
                 Cardinality(s.B_only_norm)>>,
               Jaccard(s.inter_norm, s.setA_norm \cup s.setB_norm),
               OverlapCoeff(s.inter_norm, s.setA_norm, s.setB_norm))

\* the script from the parsed lists p on
CompareScript(p, oa, ob, oi) ==
    CompareFrom(SetOps(p),
                build_norm_map(p.listA_raw, case_sensitive),
                build_norm_map(p.listB_raw, case_sensitive),
                oa, ob, oi)

\* a run, given the parsed lists p
CompareRun(p) ==
    \E oa \in IterOrders(AOnlyNorm(p.setA_norm, p.setB_norm)),
       ob \in IterOrders(BOnlyNorm(p.setA_norm, p.setB_norm)),
       oi \in IterOrders(InterNorm(p.setA_norm, p.setB_norm)) :
       compare_out' = CompareScript(p, oa, ob, oi)

RunCompare ==
    /\ CompareRun(Parse)
    /\ rerun' = FALSE
    /\ UNCHANGED <<inputs, venn_inputs, venn_out>>

(***************************************************************************)
(* One run of venn_plot_two_lists.py's script on the current inputs.       *)
(***************************************************************************)
\* the display-list policy of venn_plot_two_lists.py
VennDisplay(lst, dd) == IF dd THEN DictFromKeys(lst) ELSE lst

\* the script from the displayed lists on
VennShown(s, A_only, B_only, intersect) ==
    IF Raised(VennJaccard(s.inter_norm, s.setA_norm, s.setB_norm))
    THEN Aborted("ZeroDivisionError")
    ELSE Shown(s, A_only, B_only, intersect,
               <<Len(A_only), Len(intersect), Len(B_only)>>,
               VennJaccard(s.inter_norm, s.setA_norm, s.setB_norm),
               Zero)

\* the script from the set operations s on
VennFrom(s) ==
    VennShown(s,
        VennDisplay(recover_items(s.listA_raw, s.A_only_norm, case_sensitive),
                    deduplicate),
        VennDisplay(recover_items(s.listB_raw, s.B_only_norm, case_sensitive),
                    deduplicate),
        VennDisplay(recover_items(s.listA_raw, s.inter_norm, case_sensitive),
                    deduplicate))

VennScript == VennFrom(SetOps(VennParse))

RunVenn ==
    /\ venn_out' = VennScript
    /\ UNCHANGED <<inputs, venn_inputs, compare_out, rerun>>

(***************************************************************************)
(* The clear buttons of compare_two_lists.py.  A click runs the on_click   *)
(* callback, which only writes the session state; the script's re-run on   *)
(* the new texts is the next step, RunCompare, and until then compare_out  *)
(* is the output on the old texts.  The buttons exist once the script has  *)
(* rendered the page, and a click is handled when no re-run is due.        *)
(* Nothing of venn_plot_two_lists.py is touched.                           *)
(***************************************************************************)
\* a clear button can be clicked
Clickable == compare_out.ran /\ ~rerun

\* def clear_a(): st.session_state.text_a = ""
clear_a ==
    /\ Clickable
    /\ text_a' = <<>>
    /\ rerun' = TRUE
    /\ UNCHANGED <<text_b, settings, venn_inputs, compare_out, venn_out>>

\* def clear_b(): st.session_state.text_b = ""
clear_b ==
    /\ Clickable
    /\ text_b' = <<>>
    /\ rerun' = TRUE
    /\ UNCHANGED <<text_a, settings, venn_inputs, compare_out, venn_out>>

\* def clear_all(): both texts = ""
clear_all ==
    /\ Clickable
    /\ text_a' = <<>>
    /\ text_b' = <<>>
    /\ rerun' = TRUE
    /\ UNCHANGED <<settings, venn_inputs, compare_out, venn_out>>

Next == RunCompare \/ RunVenn \/ clear_a \/ clear_b \/ clear_all

Spec == Init /\ [][Next]_vars

SpecParse == InitParse /\ [][Next]_vars

(***************************************************************************)
(* Vocabulary of the properties.                                           *)
(***************************************************************************)
\* the normalized key of the item x
Key(x) == IF case_sensitive THEN x ELSE CaseFold(x)

\* the first item of lst, in source order, whose key is k
FirstSeen(lst, k) ==
    lst[CHOOSE i \in 1..Len(lst) :
            /\ Key(lst[i]) = k
            /\ \A j \in 1..(i - 1) : Key(lst[j]) # k]

\* the first-seen representatives in lst of the keys ks
Representatives(lst, ks) == {FirstSeen(lst, k) : k \in ks}

\* the entries of lst are pairwise distinct
Distinct(lst) == \A i, j \in 1..Len(lst) : lst[i] = lst[j] => i = j

\* the items occur in text as non-overlapping substrings, in this order
RECURSIVE InSourceOrder(_, _)
InSourceOrder(items, text) ==
    \/ items = <<>>
    \/ /\ Head(items) # <<>>
       /\ Find(text, Head(items)) > 0
       /\ InSourceOrder(Tail(items),
              Drop(text, Find(text, Head(items)) + Len(Head(items)) - 1))

\* a script ran to its end
Finished(o) == o.ran /\ o.error = "none"

\* the set operations of a run with the two texts exchanged
Swapped == SetOps(ParseTexts(text_b, text_a))

\* compare_out is the output of a run on the current text_a and text_b
CompareCurrent == compare_out.ran /\ ~rerun

\* both scripts ran, on the same inputs
BothCurrent ==
    /\ CompareCurrent /\ venn_out.ran
    /\ venn_text_a = text_a /\ venn_text_b = text_b

\* the outputs at hand, each with the text of list A its run read
OutputsOnTextA ==
    (IF CompareCurrent THEN {[out |-> compare_out, text |-> text_a]} ELSE {})
    \cup (IF venn_out.ran THEN {[out |-> venn_out, text |-> venn_text_a]}
          ELSE {})

(***************************************************************************)
(* C1: the three result key sets are pairwise disjoint, and                *)
(* |A_only| + |intersect| = |normalizedSet(A)|, likewise for B.            *)
(***************************************************************************)
C1_KeySetsPartition ==
    \A o \in {compare_out, venn_out} :
        o.ran =>
            /\ o.A_only_norm \cap o.B_only_norm = {}
            /\ o.A_only_norm \cap o.inter_norm = {}
            /\ o.B_only_norm \cap o.inter_norm = {}
            /\ Cardinality(o.A_only_norm) + Cardinality(o.inter_norm)
                  = Cardinality(o.setA_norm)
            /\ Cardinality(o.B_only_norm) + Cardinality(o.inter_norm)
                  = Cardinality(o.setB_norm)

\* both scripts ran on lists with all three regions inhabited
C1_Witness ==
    /\ compare_out.ran /\ venn_out.ran
    /\ compare_out.A_only_norm # {}
    /\ compare_out.inter_norm # {}
    /\ compare_out.B_only_norm # {}

(***************************************************************************)
(* C2: every entry of a result region is the first-seen representative of  *)
(* its key: A_only and intersect show, for each of their keys, the first   *)
(* item of list A with that key, B_only the first such item of list B.     *)
(***************************************************************************)
C2_FirstSeenRepresentatives ==
    \A o \in {compare_out, venn_out} :
        Finished(o) =>
            /\ ToSet(o.A_only) = Representatives(o.listA_raw, o.A_only_norm)
            /\ ToSet(o.intersect) = Representatives(o.listA_raw, o.inter_norm)
            /\ ToSet(o.B_only) = Representatives(o.listB_raw, o.B_only_norm)

\* case-insensitive, list A holds a key twice in two casings, list B holds
\* the same key in another form than A's first: the intersection shows A's
\* first form
C2_Witness ==
    /\ Finished(compare_out) /\ Finished(venn_out)
    /\ ~case_sensitive
    /\ Len(compare_out.listA_raw) = 2
    /\ compare_out.listA_raw[1] # compare_out.listA_raw[2]
    /\ Key(compare_out.listA_raw[1]) = Key(compare_out.listA_raw[2])
    /\ compare_out.listB_raw = <<compare_out.listA_raw[2]>>
    /\ compare_out.intersect = <<compare_out.listA_raw[1]>>
    /\ venn_out.intersect = <<compare_out.listA_raw[1]>>

(***************************************************************************)
(* C3: with delimiter "auto" the text is split on line breaks, and         *)
(* re-split on "," exactly when that split yields zero or one piece.       *)
(***************************************************************************)
\* the text holds a line break
HasLineBreak(text) == \E i \in 1..Len(text) : text[i] \in LineBreaks

\* C3 as claimed: with "auto" the re-split on "," happens exactly when the
\* text holds no line break, so a text with a line break is never split on
\* ","
C3_ResplitIffNoLineBreak ==
    \A r \in OutputsOnTextA :
        delim_mode = "auto" =>
            r.out.listA_raw =
                IF HasLineBreak(r.text)
                THEN Clean(SplitLines(r.text), strip_items)
                ELSE Clean(Split(r.text, <<",">>), strip_items)

\* C3 as the code has it: with "auto" the re-split on "," happens exactly
\* when the line-break split yields zero or one piece, which is also the
\* case of a single line ended by a line break
C3_ResplitIffAtMostOnePiece ==
    \A r \in OutputsOnTextA :
        delim_mode = "auto" =>
            r.out.listA_raw =
                IF Len(SplitLines(r.text)) <= 1
                THEN Clean(Split(r.text, <<",">>), strip_items)
                ELSE Clean(SplitLines(r.text), strip_items)

\* "auto" on a text of several lines with a comma: the comma stays inside
\* an item
C3_Witness ==
    /\ BothCurrent
    /\ delim_mode = "auto"
    /\ Len(SplitLines(text_a)) >= 2
    /\ \E i \in 1..Len(text_a) : text_a[i] = ","
    /\ \E k \in 1..Len(compare_out.listA_raw) :
           \E i \in 1..Len(compare_out.listA_raw[k]) :
               compare_out.listA_raw[k][i] = ","

(***************************************************************************)
(* C4: for A = "" and B = "x" no setting makes the pipeline fail, and it   *)
(* yields A_only = [], intersect = [], B_only = ["x"] and both scores 0.0. *)
(***************************************************************************)
\* the inputs of the scenario
C4_Scenario == text_a = <<>> /\ text_b = <<"x">>

\* C4 as claimed: for A = "" and B = "x" the run ends without error with
\* A_only = [], intersect = [], B_only = ["x"] and both scores 0.0 under
\* every setting
C4_EmptyAgainstX ==
    (C4_Scenario /\ CompareCurrent) =>
        /\ compare_out.error = "none"
        /\ compare_out.A_only = <<>>
        /\ compare_out.intersect = <<>>
        /\ compare_out.B_only = <<text_b>>
        /\ QuotEq(compare_out.jaccard, Zero)
        /\ QuotEq(compare_out.overlap_coeff, Zero)

\* C4 as the code has it: for A = "" and B = "x" the run ends without
\* error with A_only = [], intersect = [] and both scores 0.0 under every
\* setting, and B_only = ["x"] unless the custom delimiter is "x", which
\* splits B into two empty pieces and leaves B_only = []
C4_EmptyAgainstXUnlessDelimiterX ==
    (C4_Scenario /\ CompareCurrent) =>
        /\ compare_out.error = "none"
        /\ compare_out.A_only = <<>>
        /\ compare_out.intersect = <<>>
        /\ compare_out.B_only =
              IF delim_mode = "custom" /\ custom_delim = <<"x">>
              THEN <<>> ELSE <<text_b>>
        /\ QuotEq(compare_out.jaccard, Zero)
        /\ QuotEq(compare_out.overlap_coeff, Zero)

\* the scenario under a custom delimiter other than "x"
C4_Witness ==
    /\ C4_Scenario
    /\ CompareCurrent /\ Finished(compare_out)
    /\ delim_mode = "custom" /\ custom_delim = <<",">>
    /\ compare_out.B_only = <<text_b>>
    /\ compare_out.setA_norm = {}
    /\ QuotEq(compare_out.overlap_coeff, Zero)

(***************************************************************************)
(* C5: running the pipeline twice on identical inputs yields the same      *)
(* three region sequences, items in the same order, and the same scores.   *)
(* A step that leaves a script's inputs as they are and has its output on  *)
(* these inputs before and after it is a second run on identical inputs.   *)
(***************************************************************************)
C5_RerunYieldsSameResult ==
    [][/\ (inputs' = inputs /\ CompareCurrent /\ compare_out'.ran)
             => compare_out' = compare_out
       /\ (venn_inputs' = venn_inputs /\ venn_out.ran /\ venn_out'.ran)
             => venn_out' = venn_out]_vars

(***************************************************************************)
(* C6: 0.0 <= jaccard <= 1.0, and jaccard = 1.0 exactly when the two       *)
(* normalized sets are equal and non-empty.                                *)
(***************************************************************************)
C6_JaccardBounds ==
    \A o \in {compare_out, venn_out} :
        Finished(o) =>
            /\ o.jaccard[2] > 0
            /\ 0 <= o.jaccard[1]
            /\ o.jaccard[1] <= o.jaccard[2]
            /\ QuotEq(o.jaccard, Quot(1, 1))
                  <=> (o.setA_norm = o.setB_norm /\ o.setA_norm # {})

\* two different texts with the same non-empty normalized set
C6_Witness ==
    /\ BothCurrent
    /\ Finished(compare_out) /\ Finished(venn_out)
    /\ text_a # text_b
    /\ compare_out.setA_norm # {}
    /\ compare_out.setA_norm = compare_out.setB_norm
    /\ QuotEq(compare_out.jaccard, Quot(1, 1))

(***************************************************************************)
(* C7: exchanging the two texts exchanges the A_only and B_only key sets   *)
(* and leaves the intersect key set, jaccard and the overlap coefficient   *)
(* unchanged.                                                              *)
(***************************************************************************)
C7_SwapSymmetry ==
    (CompareCurrent /\ Finished(compare_out)) =>
        /\ Swapped.A_only_norm = compare_out.B_only_norm
        /\ Swapped.B_only_norm = compare_out.A_only_norm
        /\ Swapped.inter_norm = compare_out.inter_norm
        /\ QuotEq(Jaccard(Swapped.inter_norm,
                          Swapped.setA_norm \cup Swapped.setB_norm),
                  compare_out.jaccard)
        /\ QuotEq(OverlapCoeff(Swapped.inter_norm, Swapped.setA_norm,
                               Swapped.setB_norm),
                  compare_out.overlap_coeff)

\* sets of different sizes that overlap, the common key shown in a form
\* list B does not hold
C7_Witness ==
    /\ CompareCurrent /\ Finished(compare_out)
    /\ Cardinality(compare_out.setA_norm) > Cardinality(compare_out.setB_norm)
    /\ compare_out.inter_norm # {}
    /\ compare_out.A_only_norm # {}
    /\ \E i \in 1..Len(compare_out.intersect) :
           compare_out.intersect[i] \notin ToSet(compare_out.listB_raw)

(***************************************************************************)
(* C8: parse never returns an empty item; the items kept are in source     *)
(* order and original form (stripped when trimming is on); the normalized  *)
(* set is the set of their keys, so the empty string is no key and no      *)
(* entry of a result region.                                               *)
(***************************************************************************)
C8_NoEmptyItems ==
    \A r \in OutputsOnTextA :
        /\ \A i \in 1..Len(r.out.listA_raw) :
               /\ r.out.listA_raw[i] # <<>>
               /\ strip_items
                     => Strip(r.out.listA_raw[i]) = r.out.listA_raw[i]
        /\ InSourceOrder(r.out.listA_raw, r.text)
        /\ r.out.setA_norm
              = {Key(r.out.listA_raw[i]) : i \in 1..Len(r.out.listA_raw)}
        /\ <<>> \notin r.out.setA_norm
        /\ <<>> \notin ToSet(r.out.A_only) \cup ToSet(r.out.intersect)
                          \cup ToSet(r.out.B_only)

\* a text whose split has pieces that are dropped, with an item kept whose
\* key differs from its form
C8_Witness ==
    /\ BothCurrent
    /\ strip_items
    /\ Len(SplitParts(text_a, delim_mode, custom_delim))
          > Len(compare_out.listA_raw)
    /\ <<>> \in ToSet(SplitParts(text_a, delim_mode, custom_delim))
    /\ compare_out.listA_raw # <<>>
    /\ compare_out.setA_norm # ToSet(compare_out.listA_raw)

(***************************************************************************)
(* C9: each display list holds pairwise distinct strings, one per key, so  *)
(* its length is the size of its key set whether or not deduplicate is on. *)
(***************************************************************************)
C9_OneEntryPerKey ==
    \A o \in {compare_out, venn_out} :
        Finished(o) =>
            /\ Distinct(o.A_only) /\ Distinct(o.intersect) /\ Distinct(o.B_only)
            /\ Len(o.A_only) = Cardinality(o.A_only_norm)
            /\ Len(o.intersect) = Cardinality(o.inter_norm)
            /\ Len(o.B_only) = Cardinality(o.B_only_norm)
            /\ o.metrics = <<Cardinality(o.A_only_norm),
                             Cardinality(o.inter_norm),
                             Cardinality(o.B_only_norm)>>

\* deduplicate off, list A holds one key in two forms: one entry is shown
C9_Witness ==
    /\ Finished(compare_out) /\ Finished(venn_out)
    /\ ~deduplicate
    /\ Len(compare_out.listA_raw) = 2
    /\ compare_out.listA_raw[1] # compare_out.listA_raw[2]
    /\ Cardinality(compare_out.setA_norm) = 1
    /\ Len(compare_out.A_only) + Len(compare_out.intersect) = 1
    /\ Len(venn_out.A_only) + Len(venn_out.intersect) = 1

(***************************************************************************)
(* C10: on the same inputs the two scripts show the same set of            *)
(* representatives in each region, the same three counts and the same      *)
(* Jaccard value.                                                          *)
(***************************************************************************)
C10_ScriptsAgree ==
    BothCurrent =>
        /\ compare_out.error = venn_out.error
        /\ ToSet(compare_out.A_only) = ToSet(venn_out.A_only)
        /\ ToSet(compare_out.intersect) = ToSet(venn_out.intersect)
        /\ ToSet(compare_out.B_only) = ToSet(venn_out.B_only)
        /\ compare_out.metrics = venn_out.metrics
        /\ QuotEq(compare_out.jaccard, venn_out.jaccard)

\* both scripts ran on lists that share a key held in several forms and
\* differ in others
C10_Witness ==
    /\ BothCurrent
    /\ Finished(compare_out) /\ Finished(venn_out)
    /\ compare_out.A_only_norm # {}
    /\ compare_out.B_only_norm # {}
    /\ Len(compare_out.intersect) = 1
    /\ compare_out.intersect[1] \notin ToSet(compare_out.listB_raw)
    /\ venn_out.intersect = compare_out.intersect

=============================================================================
